---------------------------- MODULE Spec2Model ----------------------------
(***************************************************************************)
(* Model of qdp/io_yahoo.py: data_validation(name), the validation gate    *)
(* over one Yahoo Finance CSV under data/raw.                              *)
(*                                                                         *)
(* Text is modelled as a sequence of one-character tokens, so that strip,  *)
(* replace and lower act on characters as str.strip, str.replace and       *)
(* str.lower do.  A timestamp is an integer count of half days: day d at   *)
(* 00:00 is 2*d, day d at 12:00 is 2*d+1.  The cells of a value column are *)
(* abstracted to what pandas' type inference sees in the column.           *)
(***************************************************************************)
EXTENDS Integers, Sequences, FiniteSets, TLC

VARIABLES disk, calls

vars == <<disk, calls>>

(***************************************************************************)
(* Bounds of the model.                                                    *)
(***************************************************************************)
MaxRows == 3
MaxDay == 3
MaxPad == 2
MaxExtras == 2
MaxCalls == 2

(***************************************************************************)
(* Characters and header text.                                             *)
(***************************************************************************)
BOM == "U+FEFF"
SP == " "
TAB == "\t"

\* str.strip() removes the characters for which str.isspace() holds; the
\* byte-order mark U+FEFF is not one of them.
Whitespace == {SP, TAB}

UpperChars == <<"A", "C", "D", "H", "L", "O", "S", "V">>
LowerChars == <<"a", "c", "d", "h", "l", "o", "s", "v">>

RECURSIVE lstrip(_)
lstrip(s) ==
    IF s = <<>> THEN s
    ELSE IF Head(s) \in Whitespace THEN lstrip(Tail(s)) ELSE s

RECURSIVE rstrip(_)
rstrip(s) ==
    IF s = <<>> THEN s
    ELSE IF s[Len(s)] \in Whitespace THEN rstrip(SubSeq(s, 1, Len(s) - 1)) ELSE s

strip(s) == rstrip(lstrip(s))

\* str.replace(old, new) for a one-character old and a text new.
RECURSIVE replace(_, _, _)
replace(s, old, new) ==
    IF s = <<>> THEN s
    ELSE (IF Head(s) = old THEN new ELSE <<Head(s)>>) \o replace(Tail(s), old, new)

lower_char(c) ==
    IF \E i \in DOMAIN UpperChars : UpperChars[i] = c
    THEN LowerChars[CHOOSE i \in DOMAIN UpperChars : UpperChars[i] = c]
    ELSE c

lower(s) == [i \in DOMAIN s |-> lower_char(s[i])]

\* Lines 61-62: strip, remove the BOM, lower-case, spaces to underscores.
normalize_header(c) ==
    replace(lower(replace(strip(c), BOM, <<>>)), SP, <<"_">>)

c_open == <<"o", "p", "e", "n">>
c_high == <<"h", "i", "g", "h">>
c_low == <<"l", "o", "w">>
c_close == <<"c", "l", "o", "s", "e">>
c_adj_close == <<"a", "d", "j", "_", "c", "l", "o", "s", "e">>
c_volume == <<"v", "o", "l", "u", "m", "e">>

required == <<c_open, c_high, c_low, c_close, c_adj_close, c_volume>>
price_cols == <<c_open, c_high, c_low, c_close, c_adj_close>>

\* Headers as Yahoo Finance writes them.
H_Open == <<"O", "p", "e", "n">>
H_High == <<"H", "i", "g", "h">>
H_Low == <<"L", "o", "w">>
H_Close == <<"C", "l", "o", "s", "e">>
H_AdjClose == <<"A", "d", "j", " ", "C", "l", "o", "s", "e">>
H_Volume == <<"V", "o", "l", "u", "m", "e">>
H_Dividends == <<"D", "i", "v", "i", "d", "e", "n", "d", "s">>
H_dividends == <<"d", "i", "v", "i", "d", "e", "n", "d", "s">>
H_StockSplits == <<"S", "t", "o", "c", "k", " ", "S", "p", "l", "i", "t", "s">>

YahooHeader == <<H_Open, H_High, H_Low, H_Close, H_AdjClose, H_Volume>>

(***************************************************************************)
(* Sequence helpers.                                                       *)
(***************************************************************************)
Range(s) == {s[i] : i \in DOMAIN s}

RECURSIVE Flatten(_)
Flatten(ss) == IF ss = <<>> THEN <<>> ELSE Head(ss) \o Flatten(Tail(ss))

Reverse(s) == [i \in DOMAIN s |-> s[Len(s) + 1 - i]]

SeqsUpTo(S, n) == UNION {[1..k -> S] : k \in 0..n}

(***************************************************************************)
(* The file system and the CSV file.                                       *)
(***************************************************************************)
\* Line 17: Path("data/raw"), as its parts.
data_dir == <<"data", "raw">>

\* The one file the model puts under data/raw.
FileName == "prices.csv"

\* pandas' missing timestamp.  Timestamps proper are >= 2.
NaT == 0

Ts(t) == [kind |-> "ts", t |-> t]
\* An empty Date cell, and a Date cell whose text is no date.
EmptyCell == [kind |-> "empty", t |-> NaT]
TextCell == [kind |-> "text", t |-> NaT]

\* What a value column holds: numbers only; numbers and cells of read_csv's
\* default NA list ("N/A", "NA", "null", the empty cell, ...); or at least one
\* cell of other text ("1,234", "abc").
Kinds == {"numeric", "numeric_na", "text"}

\* The calendar day of a timestamp, as Timestamp.date() gives it.
date(t) == t \div 2

(***************************************************************************)
(* Line 29: pd.read_csv(file_path, parse_dates=["Date"], index_col="Date") *)
(***************************************************************************)
\* read_csv renames a repeated header X to X.1, X.2, ...
mangle_dupe_cols(header) ==
    [i \in DOMAIN header |->
        LET k == Cardinality({j \in 1..(i - 1) : header[j] = header[i]})
        IN  IF k = 0 THEN header[i] ELSE header[i] \o <<".", ToString(k)>>]

\* The dtype read_csv infers for a value column.
infer_dtype(kind) == IF kind = "text" THEN "object" ELSE "float64"

\* parse_dates: the index becomes a DatetimeIndex (an empty cell is NaT, a
\* written UTC offset makes it tz-aware) unless a cell cannot be parsed, in
\* which case the index is left unaltered, with dtype object.
parse_dates(csv) ==
    IF \E i \in DOMAIN csv.dates : csv.dates[i].kind = "text"
    THEN [dtype |-> "object", tz |-> FALSE,
          values |-> [i \in DOMAIN csv.dates |-> NaT]]
    ELSE [dtype |-> "datetime64", tz |-> csv.tz,
          values |-> [i \in DOMAIN csv.dates |-> csv.dates[i].t]]

read_csv(csv) ==
    LET names == mangle_dupe_cols(csv.header)
    IN  [index |-> parse_dates(csv),
         cols |-> [i \in DOMAIN names |->
                     [name |-> names[i], dtype |-> infer_dtype(csv.cells[i]),
                      cells |-> csv.cells[i], src |-> i]]]

(***************************************************************************)
(* Lines 31-58: index sanity.                                              *)
(***************************************************************************)
\* Lines 32-36: tz_localize(None); an Index that is no DatetimeIndex has no
\* such method and the AttributeError is swallowed.
tz_localize_none(index) ==
    IF index.dtype = "object" THEN index ELSE [index EXCEPT !.tz = FALSE]

\* Line 39: getattr(df.index, "hour", None) is not True.  The attribute is
\* an Index of hours or None, never the object True, so the test always holds.
needs_normalize(index) == TRUE

\* DatetimeIndex.normalize(): every timestamp to midnight; NaT stays NaT.
normalize(index) ==
    [index EXCEPT !.values = [i \in DOMAIN index.values |->
                                index.values[i] - (index.values[i] % 2)]]

hasnans(index) == \E i \in DOMAIN index.values : index.values[i] = NaT

\* Line 44: df.index.isna().sum()
bad_count(index) == Cardinality({i \in DOMAIN index.values : index.values[i] = NaT})

\* The uniqueness check left out.
is_unique_always(index) == TRUE

is_unique(index) ==
    \A i, j \in DOMAIN index.values : index.values[i] = index.values[j] => i = j

\* Lines 49-50: index[index.duplicated()].unique()[0], the first entry that
\* repeats an earlier one.
example(index) ==
    LET v == index.values
        dup == {i \in DOMAIN v : \E j \in 1..(i - 1) : v[j] = v[i]}
    IN  v[CHOOSE i \in dup : \A k \in dup : i <= k]

is_monotonic_increasing(index) ==
    \A i \in 1..(Len(index.values) - 1) : index.values[i] <= index.values[i + 1]

\* Lines 55-56: the label of the first negative difference.
first_bad(index) ==
    LET v == index.values
        neg == {i \in 2..Len(v) : v[i] - v[i - 1] < 0}
    IN  v[CHOOSE i \in neg : \A k \in neg : i <= k]

\* Index.get_loc on a unique index, as a position counted from 1.
get_loc(index, label) == CHOOSE i \in DOMAIN index.values : index.values[i] = label

\* Python's index[p] for a position p counted from 0, where -1 is the last.
getitem0(v, p) == IF p < 0 THEN v[Len(v) + 1 + p] ELSE v[p + 1]

\* The position taken without stepping back by one.
prev_same(index) == first_bad(index)

\* Line 57: df.index[df.index.get_loc(first_bad) - 1]
prev(index) ==
    getitem0(index.values, (get_loc(index, first_bad(index)) - 1) - 1)

(***************************************************************************)
(* Lines 60-88: column sanity and dtype checks.                            *)
(***************************************************************************)
columns(df) == [i \in DOMAIN df.cols |-> df.cols[i].name]

\* Lines 61-62: df.columns = [...]
rename_columns(df) ==
    [df EXCEPT !.cols = [i \in DOMAIN df.cols |->
                           [df.cols[i] EXCEPT !.name = normalize_header(df.cols[i].name)]]]

\* Line 67
missing(df) == SelectSeq(required, LAMBDA c : c \notin Range(columns(df)))

\* Line 73
extras(df) == SelectSeq(columns(df), LAMBDA c : c \notin Range(required))

\* Line 77
ordered_cols(df) == required \o extras(df)

\* df[labels] over a column index that may hold a label more than once: every
\* label selects all the columns that carry it.
getitem(df, labels) ==
    [df EXCEPT !.cols =
        Flatten([k \in DOMAIN labels |->
                   SelectSeq(df.cols, LAMBDA col : col.name = labels[k])])]

\* is_numeric_dtype(df[c]): df[c] is a Series when one column is named c and
\* a DataFrame, which has no numeric dtype, when several are.
is_numeric_dtype(df, c) ==
    LET sel == SelectSeq(df.cols, LAMBDA col : col.name = c)
    IN  Len(sel) = 1 /\ sel[1].dtype # "object"

\* Line 82
bad_price(df) == SelectSeq(price_cols, LAMBDA c : ~is_numeric_dtype(df, c))

(***************************************************************************)
(* data_validation(name)                                                   *)
(***************************************************************************)
NoTable == [index |-> [dtype |-> "", tz |-> FALSE, values |-> <<>>], cols |-> <<>>]

Raised(exc, check, count, dates, names, found, path) ==
    [status |-> "raised", exc |-> exc, check |-> check, count |-> count,
     dates |-> dates, names |-> names, found |-> found, path |-> path,
     table |-> NoTable]

Returned(df) ==
    [status |-> "returned", exc |-> "", check |-> "", count |-> 0,
     dates |-> <<>>, names |-> <<>>, found |-> <<>>, path |-> <<>>,
     table |-> df]

\* Python's truth value of the argument (line 21: not name).
truthy(name) ==
    CASE name.type = "str" -> name.value # ""
      [] name.type = "int" -> name.value # "0"
      [] OTHER -> FALSE

\* Line 25: file_path.is_file()
is_file(d, file_path) ==
    d.dirExists /\ d.fileExists /\ file_path = data_dir \o <<FileName>>

\* Lines 80-90, on the reordered frame; w is the warning list so far.
dtype_checks(df, file, w) ==
    IF bad_price(df) # <<>>
    THEN [outcome |-> Raised("TypeError", "price", 0, <<>>, bad_price(df), <<>>, <<file>>),
          warnings |-> w]
    ELSE IF ~is_numeric_dtype(df, c_volume)
    THEN [outcome |-> Raised("TypeError", "volume", 0, <<>>, <<c_volume>>, <<>>, <<file>>),
          warnings |-> w]
    ELSE [outcome |-> Returned(df), warnings |-> w]

\* No warning for extra columns.
warn_never(df, file) == <<>>

\* Lines 73-75: the UserWarning, if any.
warn(df, file) ==
    IF extras(df) # <<>> THEN <<[names |-> extras(df), file |-> file]>> ELSE <<>>

\* Lines 60-78, on the frame whose index passed.
column_sanity(df0, file) ==
    LET df == rename_columns(df0)
    IN  IF missing(df) # <<>>
        THEN [outcome |-> Raised("ValueError", "missing", 0, <<>>, missing(df),
                                 columns(df), <<file>>),
              warnings |-> <<>>]
        ELSE dtype_checks(getitem(df, ordered_cols(df)), file, warn(df, file))

\* Lines 31-58.
index_sanity(df0, file) ==
    LET i1 == tz_localize_none(df0.index)
    IN  IF needs_normalize(i1) /\ i1.dtype = "object"
        THEN [outcome |-> Raised("AttributeError", "normalize", 0, <<>>, <<>>, <<>>, <<>>),
              warnings |-> <<>>]
        ELSE
        LET index == IF needs_normalize(i1) THEN normalize(i1) ELSE i1
        IN  IF hasnans(index)
            THEN [outcome |-> Raised("ValueError", "nat", bad_count(index), <<>>, <<>>,
                                     <<>>, <<file>>),
                  warnings |-> <<>>]
            ELSE IF ~is_unique(index)
            THEN [outcome |-> Raised("ValueError", "unique", 0, <<date(example(index))>>,
                                     <<>>, <<>>, <<file>>),
                  warnings |-> <<>>]
            ELSE IF ~is_monotonic_increasing(index)
            THEN [outcome |-> Raised("ValueError", "ascending", 0,
                                     <<date(prev(index)), date(first_bad(index))>>,
                                     <<>>, <<>>, <<file>>),
                  warnings |-> <<>>]
            ELSE column_sanity([df0 EXCEPT !.index = index], file)

\* Lines 6-90.  The result is the exception raised or the frame returned,
\* with the warnings emitted on the way.
data_validation(d, name) ==
    IF ~d.dirExists
    THEN [outcome |-> Raised("FileNotFoundError", "data_dir", 0, <<>>, <<>>, <<>>, data_dir),
          warnings |-> <<>>]
    ELSE IF ~truthy(name) \/ name.type # "str"
    THEN [outcome |-> Raised("FileNotFoundError", "name", 0, <<>>, <<>>, <<>>, <<>>),
          warnings |-> <<>>]
    ELSE IF ~is_file(d, data_dir \o <<name.value>>)
    THEN [outcome |-> Raised("FileNotFoundError", "file", 0, <<>>, <<>>, <<>>,
                             data_dir \o <<name.value>>),
          warnings |-> <<>>]
    ELSE index_sanity(read_csv(d.csv), name.value)

(***************************************************************************)
(* The inputs: the arguments of a call and the files on disk.  A file has  *)
(* a Date column, at least one row, and headers that are not empty and     *)
(* differ from one another as written (they may agree once normalized).    *)
(***************************************************************************)
Str(v) == [type |-> "str", value |-> v]

\* The file's name, another name, the empty string and the integer 7.
Names == {Str(FileName), Str("other.csv"), Str(""), [type |-> "int", value |-> "7"]}

\* Every day at 00:00, and the first day at 12:00 as well.
Timestamps == {2 * d : d \in 1..MaxDay} \cup {2 * 1 + 1}

DateCells == {EmptyCell, TextCell} \cup {Ts(t) : t \in Timestamps}

\* Every Date column of 1..MaxRows cells in which some cell is not empty.
DateColumns ==
    {ds \in SeqsUpTo(DateCells, MaxRows) :
        \E i \in DOMAIN ds : ds[i].kind # "empty"}

GoodDates == <<Ts(2), Ts(4)>>

\* One Date column for each way the index can fail, and a good one.
SampleDates ==
    {GoodDates, <<Ts(2), EmptyCell>>, <<Ts(2), Ts(3)>>, <<Ts(4), Ts(2)>>,
     <<TextCell, Ts(2)>>, <<EmptyCell, TextCell>>}

\* The cells of the columns under header: text in the columns named in
\* textual, cells of the NA list in those named in na, numbers elsewhere.
CellsFor(header, textual, na) ==
    [i \in DOMAIN header |->
        IF header[i] \in textual THEN "text"
        ELSE IF header[i] \in na THEN "numeric_na" ELSE "numeric"]

Csv(dates, tz, header, cells) ==
    [dates |-> dates, tz |-> tz, header |-> header, cells |-> cells]

Without(s, drop) == SelectSeq(s, LAMBDA x : x \notin drop)

InsertAt(s, p, block) == SubSeq(s, 1, p) \o block \o SubSeq(s, p + 1, Len(s))

\* Files that differ in the Date column only.
CsvIndex ==
    {Csv(ds, FALSE, YahooHeader, CellsFor(YahooHeader, {}, {})) : ds \in DateColumns}

\* Files that can break several checks at once, with or without an extra
\* column.
CsvSeveral ==
    {Csv(ds, tz, Without(YahooHeader, drop) \o ex,
         CellsFor(Without(YahooHeader, drop) \o ex, textual, {})) :
        ds \in SampleDates, tz \in BOOLEAN,
        drop \in {{}, {H_Volume}, {H_Close, H_Volume}},
        ex \in {<<>>, <<H_Dividends>>},
        textual \in {{}, {H_Close}, {H_Volume}, {H_Open, H_Close, H_Volume}}}

\* Extra headers: two that normalize to the same name, one with a space, and
\* a lower-case twin of a required one.
ExtraHeaders == {H_Dividends, H_dividends, H_StockSplits, c_open}

ExtraBlocks ==
    {e \in SeqsUpTo(ExtraHeaders, MaxExtras) :
        \A i, j \in DOMAIN e : e[i] = e[j] => i = j}

\* Files that differ in the header row: the six Yahoo columns in file order
\* or reversed, Adj Close or Volume possibly left out, and a block of extra columns
\* put before, among or after them.
CsvColumns ==
    {Csv(GoodDates, FALSE, h, CellsFor(h, {H_StockSplits}, {})) :
        h \in {InsertAt(Without(base, drop), p, e) :
                 base \in {YahooHeader, Reverse(YahooHeader)},
                 drop \in {{}, {H_AdjClose}, {H_Volume}},
                 p \in {0, 3, 5},
                 e \in ExtraBlocks}}

Pads == SeqsUpTo({BOM, SP, TAB}, MaxPad)

\* Files in which the Adj Close header is written with byte-order marks and
\* whitespace around it, or an extra header with them before it.
CsvDecorated ==
    {Csv(GoodDates, FALSE, [YahooHeader EXCEPT ![5] = pre \o H_AdjClose \o suf],
         CellsFor(YahooHeader, {}, {})) : pre \in Pads, suf \in Pads}
    \cup
    {Csv(GoodDates, FALSE, YahooHeader \o <<pre \o H_Dividends>>,
         [i \in 1..7 |-> "numeric"]) : pre \in Pads}

\* Files that differ in what the required columns hold, or the extra one.
CsvDtypes ==
    {Csv(GoodDates, FALSE, YahooHeader, cells) : cells \in [1..6 -> Kinds]}
    \cup
    {Csv(GoodDates, FALSE, YahooHeader \o <<H_Dividends>>,
         [i \in 1..7 |-> IF i = 7 THEN k ELSE "numeric"]) : k \in Kinds}

Disks ==
    {[dirExists |-> TRUE, fileExists |-> TRUE, csv |-> c] :
        c \in CsvIndex \cup CsvSeveral \cup CsvColumns \cup CsvDecorated \cup CsvDtypes}
    \cup
    {[dirExists |-> de, fileExists |-> FALSE, csv |-> c] :
        de \in BOOLEAN, c \in CsvSeveral}

(***************************************************************************)
(* The state machine: a process that calls data_validation, over a disk    *)
(* nothing else writes to.                                                 *)
(***************************************************************************)
Init ==
    /\ disk \in Disks
    /\ calls = <<>>

\* A call that does not repeat a warning an earlier call emitted.
Validate_once(name) ==
    /\ Len(calls) < MaxCalls
    /\ LET r == data_validation(disk, name)
           shown == {calls[i].warnings : i \in DOMAIN calls}
       IN  calls' = Append(calls, [name |-> name, outcome |-> r.outcome,
                                   warnings |-> IF r.warnings \in shown THEN <<>>
                                                ELSE r.warnings])
    /\ UNCHANGED disk

\* One call of data_validation(name): the whole function, from line 17 to
\* the return or the raise.  The function assigns to no global and writes no
\* file, so the disk is as it was.
Validate(name) ==
    /\ Len(calls) < MaxCalls
    /\ LET r == data_validation(disk, name)
       IN  calls' = Append(calls, [name |-> name, outcome |-> r.outcome,
                                   warnings |-> r.warnings])
    /\ UNCHANGED disk

Next == \E name \in Names : Validate(name)

Spec == Init /\ [][Next]_vars

(***************************************************************************)
(* What the claims speak of, read off the file and the call.               *)
(***************************************************************************)
\* The call reached read_csv: the directory and the file are there and the
\* argument names the file.
Located(c) == disk.dirExists /\ disk.fileExists /\ c.name = Str(FileName)

FileDates == disk.csv.dates

\* Every Date cell holds a date.
AllParsed == \A i \in DOMAIN FileDates : FileDates[i].kind = "ts"

\* The calendar days of the Date column, in file order.
Days == [i \in DOMAIN FileDates |-> FileDates[i].t \div 2]

DaysUnique == \A i, j \in DOMAIN Days : Days[i] = Days[j] => i = j

Descents == {k \in 2..Len(Days) : Days[k] < Days[k - 1]}

IndexPasses == AllParsed /\ DaysUnique /\ Descents = {}

\* The file's column names as the validator names them, in file order.
FileColumns == [i \in DOMAIN disk.csv.header |-> normalize_header(disk.csv.header[i])]

HasRequired == Range(required) \subseteq Range(FileColumns)

FileExtras == SelectSeq(FileColumns, LAMBDA c : c \notin Range(required))

TableNames(t) == [i \in DOMAIN t.cols |-> t.cols[i].name]

(***************************************************************************)
(* C1.  Whenever data_validation returns a table, the table's row key has  *)
(* no missing value and is strictly ascending, hence without two equal     *)
(* entries.                                                                *)
(***************************************************************************)
C1_ReturnedIndexStrictlyAscending ==
    \A i \in DOMAIN calls :
        calls[i].outcome.status = "returned" =>
            LET v == calls[i].outcome.table.index.values
            IN  /\ \A k \in DOMAIN v : v[k] # NaT
                /\ \A j, k \in DOMAIN v : j # k => v[j] # v[k]
                /\ \A k \in 1..(Len(v) - 1) : v[k] < v[k + 1]

\* A table of three rows is returned for a file whose dates carry a time of
\* day.
C1_Witness ==
    \E i \in DOMAIN calls :
        /\ calls[i].outcome.status = "returned"
        /\ Len(calls[i].outcome.table.index.values) >= 3
        /\ \E k \in DOMAIN FileDates : FileDates[k].t % 2 = 1

(***************************************************************************)
(* C2.  A returned table has open, high, low, close, adj_close, volume as  *)
(* its first six columns, then the extra input columns in their original   *)
(* order, and holds every input column exactly once, also when two headers *)
(* normalize to the same name.                                             *)
(***************************************************************************)
C2_CanonicalThenExtrasOnce ==
    \A i \in DOMAIN calls :
        calls[i].outcome.status = "returned" =>
            LET t == calls[i].outcome.table
            IN  /\ TableNames(t) = required \o FileExtras
                /\ Len(t.cols) = Len(disk.csv.header)
                /\ \A k \in DOMAIN disk.csv.header :
                       Cardinality({j \in DOMAIN t.cols : t.cols[j].src = k}) = 1

(***************************************************************************)
(* C3.  A header Adj Close with any byte-order marks and whitespace around *)
(* it, in any order, is recognized as adj_close, and every normalized      *)
(* column name is trimmed and free of byte-order marks, upper-case letters *)
(* and spaces.                                                             *)
(***************************************************************************)
Clean(n) ==
    /\ strip(n) = n
    /\ \A k \in DOMAIN n : n[k] \notin {BOM, SP} \cup Range(UpperChars)

C3_HeaderNormalization ==
    \A i \in DOMAIN calls :
        LET c == calls[i]
            seen == IF c.outcome.status = "returned" THEN TableNames(c.outcome.table)
                    ELSE c.outcome.found
        IN  /\ \A k \in DOMAIN seen : Clean(seen[k])
            /\ (Located(c) /\ IndexPasses) =>
                   \A k \in DOMAIN disk.csv.header :
                       (\E pre \in Pads, suf \in Pads :
                            disk.csv.header[k] = pre \o H_AdjClose \o suf)
                       => ~(c.outcome.check = "missing"
                            /\ c_adj_close \in Range(c.outcome.names))

(***************************************************************************)
(* C4.  For a file that passes the path, index and required-column checks, *)
(* a non-numeric cell in one of the six required columns makes the call    *)
(* fail with a TypeError that names the offending columns and the file; no *)
(* table is returned for it.  The columns named are read as the check      *)
(* order of C5 has them: every offending price column, or volume when no   *)
(* price column offends.                                                   *)
(***************************************************************************)
\* The required columns of the file that hold a cell that is no number.
NonNumeric ==
    {FileColumns[k] : k \in {j \in DOMAIN FileColumns :
        FileColumns[j] \in Range(required) /\ disk.csv.cells[j] # "numeric"}}

C4_NonNumericCellFails ==
    \A i \in DOMAIN calls :
        (Located(calls[i]) /\ IndexPasses /\ HasRequired /\ NonNumeric # {}) =>
            /\ calls[i].outcome.status = "raised"
            /\ calls[i].outcome.exc = "TypeError"
            /\ LET prices == NonNumeric \cap Range(price_cols)
               IN  Range(calls[i].outcome.names) =
                       (IF prices # {} THEN prices ELSE {c_volume})
            /\ calls[i].outcome.path = <<FileName>>

(***************************************************************************)
(* C5.  The checks fail fast in the order data directory, name, file,      *)
(* missing dates, duplicate dates, non-ascending dates, missing required   *)
(* columns, non-numeric price columns, non-numeric volume: a call on an    *)
(* input that violates some of them raises the error of the earliest one   *)
(* violated and returns no table.                                          *)
(***************************************************************************)
CheckOrder ==
    <<"data_dir", "name", "file", "nat", "unique", "ascending", "missing",
      "price", "volume">>

TextColumns ==
    {FileColumns[k] : k \in {j \in DOMAIN FileColumns : disk.csv.cells[j] = "text"}}

\* The input of call c violates the check, judged on the input alone.  The
\* checks of the file's content apply once the file is found.
Violates(c, check) ==
    CASE check = "data_dir" -> ~disk.dirExists
      [] check = "name" -> c.name.type # "str" \/ c.name.value = ""
      [] check = "file" -> ~Located(c)
      [] check = "nat" ->
            Located(c) /\ \E k \in DOMAIN FileDates : FileDates[k].kind = "empty"
      [] check = "unique" ->
            Located(c) /\ \E j, k \in DOMAIN FileDates :
                /\ j # k /\ FileDates[j].kind = "ts" /\ FileDates[k].kind = "ts"
                /\ Days[j] = Days[k]
      [] check = "ascending" ->
            Located(c) /\ \E k \in 2..Len(FileDates) :
                /\ FileDates[k - 1].kind = "ts" /\ FileDates[k].kind = "ts"
                /\ Days[k] < Days[k - 1]
      [] check = "missing" -> Located(c) /\ ~HasRequired
      [] check = "price" -> Located(c) /\ TextColumns \cap Range(price_cols) # {}
      [] check = "volume" -> Located(c) /\ c_volume \in TextColumns
      [] OTHER -> FALSE

C5_EarliestViolatedCheckRaises ==
    \A i \in DOMAIN calls :
        LET c == calls[i]
            bad == {k \in DOMAIN CheckOrder : Violates(c, CheckOrder[k])}
        IN  bad # {} =>
                /\ c.outcome.status = "raised"
                /\ c.outcome.check = CheckOrder[CHOOSE k \in bad : \A m \in bad : k <= m]

(***************************************************************************)
(* C6.  For a file whose dates are all present and unique but not          *)
(* ascending, the call fails with a ValueError that reports the date at    *)
(* position i-1 and the date at position i, i the first position whose     *)
(* date is less than its predecessor's, and the file name.                 *)
(***************************************************************************)
C6_FirstDescentReported ==
    \A i \in DOMAIN calls :
        (Located(calls[i]) /\ AllParsed /\ DaysUnique /\ Descents # {}) =>
            LET k == CHOOSE k \in Descents : \A m \in Descents : k <= m
                o == calls[i].outcome
            IN  /\ o.status = "raised"
                /\ o.exc = "ValueError"
                /\ o.check = "ascending"
                /\ o.dates = <<Days[k - 1], Days[k]>>
                /\ o.path = <<FileName>>

\* The error is raised for a file with two descents, the first of which is
\* at the second row.
C6_Witness ==
    \E i \in DOMAIN calls :
        /\ calls[i].outcome.check = "ascending"
        /\ Cardinality(Descents) >= 2
        /\ calls[i].outcome.dates = <<Days[1], Days[2]>>

(***************************************************************************)
(* C7.  For a file in which a date is missing or cannot be parsed, the     *)
(* call fails with a ValueError that reports the number of bad rows and    *)
(* the file name, and with no other error.                                 *)
(***************************************************************************)
C7_BadDatesRaiseValueError ==
    \A i \in DOMAIN calls :
        (Located(calls[i]) /\ ~AllParsed) =>
            /\ calls[i].outcome.status = "raised"
            /\ calls[i].outcome.exc = "ValueError"
            /\ calls[i].outcome.check = "nat"
            /\ calls[i].outcome.count =
                   Cardinality({k \in DOMAIN FileDates : FileDates[k].kind # "ts"})
            /\ calls[i].outcome.path = <<FileName>>

(***************************************************************************)
(* C8.  As claimed: every call on a file with all six required columns and *)
(* at least one extra column emits one warning that lists exactly the      *)
(* extra column names and the file name, keeps those columns after the     *)
(* canonical six, and is not kept from returning by the warning; a call on *)
(* a file with no extra column emits no warning.  Stated for the files     *)
(* whose Date cells are dates or empty, for which the index checks raise   *)
(* the errors they are written to raise.                                   *)
(***************************************************************************)
WarnsAndKeeps(c) ==
    /\ c.warnings = <<[names |-> FileExtras, file |-> FileName]>>
    /\ c.outcome.status = "returned" \/ c.outcome.exc = "TypeError"
    /\ c.outcome.status = "returned" =>
           LET names == TableNames(c.outcome.table)
           IN  /\ SubSeq(names, 1, 6) = required
               /\ Range(SubSeq(names, 7, Len(names))) = Range(FileExtras)

C8_Original ==
    \A i \in DOMAIN calls :
        /\ (/\ Located(calls[i])
            /\ \A k \in DOMAIN FileDates : FileDates[k].kind # "text"
            /\ HasRequired
            /\ FileExtras # <<>>)
               => WarnsAndKeeps(calls[i])
        /\ calls[i].warnings # <<>> => FileExtras # <<>>

(***************************************************************************)
(* C8, amended.  Every call on a file that passes the index checks (its    *)
(* dates all parse, are unique and ascend), has all six required columns   *)
(* and at least one extra column emits one warning that lists exactly the  *)
(* extra column names and the file name, keeps those columns after the     *)
(* canonical six, and returns unless a dtype check fails afterwards; a     *)
(* call on a file with no extra column emits no warning.                   *)
(***************************************************************************)
C8_WarningAfterIndexChecks ==
    \A i \in DOMAIN calls :
        /\ (Located(calls[i]) /\ IndexPasses /\ HasRequired /\ FileExtras # <<>>)
               => WarnsAndKeeps(calls[i])
        /\ calls[i].warnings # <<>> => FileExtras # <<>>

\* A table is returned with two extra columns and the warning that lists
\* them.
C8_Witness ==
    \E i \in DOMAIN calls :
        /\ calls[i].outcome.status = "returned"
        /\ Len(FileExtras) = 2
        /\ calls[i].warnings = <<[names |-> FileExtras, file |-> FileName]>>

(***************************************************************************)
(* C9.  Calls are independent: while the file is unchanged, two calls with *)
(* the same name have the same outcome and emit the same warning, whatever *)
(* was called before, and no call changes the disk.                        *)
(***************************************************************************)
SameNameSameResult ==
    \A i, j \in DOMAIN calls :
        calls[i].name = calls[j].name =>
            /\ calls[i].outcome = calls[j].outcome
            /\ calls[i].warnings = calls[j].warnings

to_csv(t) ==
    [dates |-> [k \in DOMAIN t.index.values |-> Ts(t.index.values[k])],
     tz |-> FALSE,
     header |-> TableNames(t),
     cells |-> [k \in DOMAIN t.cols |-> t.cols[k].cells]]

Content(t) ==
    [index |-> t.index,
     cols |-> [k \in DOMAIN t.cols |->
                 [name |-> t.cols[k].name, dtype |-> t.cols[k].dtype,
                  cells |-> t.cols[k].cells]]]

C10_RoundTrip ==
    \A i \in DOMAIN calls :
        calls[i].outcome.status = "returned" =>
            LET t == calls[i].outcome.table
                again == data_validation([disk EXCEPT !.csv = to_csv(t)],
                                         calls[i].name).outcome
            IN  /\ again.status = "returned"
                /\ Content(again.table) = Content(t)

=============================================================================
